---- MODULE Spec2Model ----
(***************************************************************************)
(* A model of the model-student browser playground: the promise-caching    *)
(* Model Loader (lib/model-loader.js), the status reducer                  *)
(* (lib/model-status.js), the sequential Fallback Loader                   *)
(* (pages/summarize/summarize-logic.js) and the page controllers that      *)
(* wire them to the DOM.                                                   *)
(*                                                                         *)
(* JavaScript runs every handler to completion, so one action is one       *)
(* synchronous run: a call from outside, or one promise continuation.      *)
(***************************************************************************)
EXTENDS Naturals, Sequences, FiniteSets, TLC

VARIABLES
  resolvedFn,   \* loader -> whether its resolvedFn holds a pipeline function
  cache,      \* loader -> the Map from LoadKey to the promise stored for it
  attempts,   \* the promises created by loadModel, in creation order
  calls,      \* the loadModel calls made by the last synchronous run
  failedKeys, \* <<loader, key>> whose load failed to null and was not loaded since
  fb,         \* the one loadWithFallback call under observation
  status,     \* a status the reducer is being driven through
  trail,      \* the reducer applications so far: [from, event, to]
  page,       \* which page controller is loaded
  modelState, \* the page controller's modelState
  pagePipe,   \* the page controller's stored pipeline
  badge,      \* the status the page's #model-status element shows
  runs,       \* the startLoadModel invocations, in start order
  clicks,     \* how many times Retry was clicked
  input,      \* the page's input: "blank", or "valid" (text / a selected image)
  disabled,   \* runBtn.disabled
  inferring,  \* the inferring flag of sentiment.js
  inferences, \* the runInference invocations that reached their await
  probe       \* the last call of a pure function: its arguments and result

loaderVars == <<resolvedFn, cache, attempts, calls, failedKeys>>
statusVars == <<status, trail, probe>>
pageVars   == <<page, modelState, pagePipe, badge, runs, clicks,
                input, disabled, inferring, inferences>>
vars       == <<resolvedFn, cache, attempts, calls, failedKeys, fb, status, trail,
                page, modelState, pagePipe, badge, runs, clicks,
                input, disabled, inferring, inferences, probe>>

(***************************************************************************)
(* Bounds                                                                  *)
(***************************************************************************)
\* promises one loader session creates
MaxAttempts == 3
\* depth of loadModel calls nested through synchronous progress callbacks
MaxNest == 1
\* length of a fallback list
MaxModels == 3
\* Retry clicks on a page
MaxClicks == 2
\* events fed to the status reducer
MaxEvents == 3
\* clicks on the run button of a page
MaxInferences == 2
\* progress percentages are the multiples of 1/ProgressScale
ProgressScale == 10
\* length of a list of classification results
MaxResults == 3
\* classification scores are the multiples 0..MaxScore of a unit
MaxScore == 2

(***************************************************************************)
(* Model Loader                                                            *)
(***************************************************************************)
\* the loader instances: each createLoader call makes one
Loaders  == {1, 2}
Tasks    == {"sentiment-analysis"}
ModelIds == {"model-a", "model-b"}

\* const key = `${task}::${model}`
LoadKey(task, model) == task \o "::" \o model

Keys == {LoadKey(t, m) : t \in Tasks, m \in ModelIds}

\* A promise returned by loadModel.
\*   acq:  "importing"  awaiting import('@huggingface/transformers')
\*         "inflight"   the pipeline function was called and has not settled
\*         "fulfilled" / "rejected"  how the acquisition settled
\*   prom: "pending" | "callable" | "null" | "rejected", the returned promise
Attempt(l, k, a) == [loader |-> l, key |-> k, acq |-> a, prom |-> "pending"]

\* the acquisitions of key k on loader l that are started and not settled
InFlight(att, l, k) ==
  {i \in 1..Len(att) : /\ att[i].loader = l
                        /\ att[i].key = k
                        /\ att[i].acq \in {"importing", "inflight"}}

\* the promises handed out for key k on loader l that have not settled
Unsettled(att, l, k) ==
  {i \in 1..Len(att) : att[i].loader = l /\ att[i].key = k /\ att[i].prom = "pending"}

Has(c, l, k) == k \in DOMAIN c[l]

MapSetOnEveryLoader(c, l, k, v) ==
  [m \in DOMAIN c |-> [x \in DOMAIN c[m] \cup {k} |-> IF x = k THEN v ELSE c[m][x]]]

MapSet(c, l, k, v) ==
  [c EXCEPT ![l] = [x \in DOMAIN c[l] \cup {k} |-> IF x = k THEN v ELSE c[l][x]]]

MapClear(c, l, k) ==
  [c EXCEPT ![l] = [x \in {} |-> 0]]

MapDelete(c, l, k) ==
  [c EXCEPT ![l] = [x \in DOMAIN c[l] \ {k} |-> c[l][x]]]

\* One loadModel call on state st = [cache, attempts, calls, failedKeys, base],
\* base being the promises that existed when the synchronous run began.
\* plan lists the keys that the chain of onProgress callbacks loads when the
\* pipeline function reports progress synchronously, before it returns:
\* the callback given to this call loads plan[1] with a callback that loads
\* plan[2], and so on.  <<>> is a callback that loads nothing, or a pipeline
\* function that reports progress only later.
RECURSIVE loadModel(_, _, _, _, _)
loadModel(st, res, l, k, plan) ==
  LET log(hit, ret) ==
        Append(st.calls,
               [loader |-> l, key |-> k, hit |-> hit, returned |-> ret,
                unsettled |-> Unsettled(st.base, l, k),
                afterFailure |-> <<l, k>> \in st.failedKeys])
  IN
  IF Has(st.cache, l, k)
  THEN \* if (cache.has(key)) return cache.get(key);
       [st EXCEPT !.calls = log(TRUE, st.cache[l][k])]
  ELSE LET id == Len(st.attempts) + 1
           \* the async function runs up to its first await: with resolvedFn
           \* set it calls the pipeline function at once, else it awaits the
           \* dynamic import
           st1 == [st EXCEPT
                     !.attempts = Append(@, Attempt(l, k, IF res[l] THEN "inflight"
                                                                    ELSE "importing")),
                     !.calls = log(FALSE, id),
                     !.failedKeys = @ \ {<<l, k>>}]
           \* progress_callback: onProgress, called before cache.set
           st2 == IF res[l] /\ plan # <<>>
                  THEN loadModel(st1, res, l, Head(plan), Tail(plan))
                  ELSE st1
       IN  \* cache.set(key, promise); return promise;
           [st2 EXCEPT !.cache = MapSet(@, l, k, id)]

LoaderState ==
  [cache |-> cache, attempts |-> attempts, calls |-> <<>>, failedKeys |-> failedKeys,
   base |-> attempts]

Plans == UNION {[1..n -> Keys] : n \in 0..MaxNest}

\* A caller calls loadModel(task, model, {onProgress}).
Load(l, k, plan) ==
  LET st == loadModel(LoaderState, resolvedFn, l, k, plan) IN
  /\ Len(st.attempts) <= MaxAttempts
  /\ cache' = st.cache
  /\ attempts' = st.attempts
  /\ calls' = st.calls
  /\ failedKeys' = st.failedKeys
  /\ UNCHANGED <<resolvedFn, fb, statusVars, pageVars>>

\* The dynamic import resolves: resolvedFn = mod.pipeline, and the pipeline
\* function is called; its synchronous progress report may load again.
ImportDone(i, plan) ==
  /\ i \in 1..Len(attempts)
  /\ attempts[i].acq = "importing"
  /\ LET l == attempts[i].loader
         res == [resolvedFn EXCEPT ![l] = TRUE]
         st0 == [LoaderState EXCEPT !.attempts[i].acq = "inflight"]
         st == IF plan # <<>>
               THEN loadModel(st0, res, l, Head(plan), Tail(plan))
               ELSE st0
     IN /\ Len(st.attempts) <= MaxAttempts
        /\ resolvedFn' = res
        /\ cache' = st.cache
        /\ attempts' = st.attempts
        /\ calls' = st.calls
        /\ failedKeys' = st.failedKeys
  /\ UNCHANGED <<fb, statusVars, pageVars>>

\* The dynamic import rejects: the async function's promise rejects.
ImportFail(i) ==
  /\ i \in 1..Len(attempts)
  /\ attempts[i].acq = "importing"
  /\ attempts' = [attempts EXCEPT ![i].acq = "rejected"]
  /\ calls' = <<>>
  /\ UNCHANGED <<resolvedFn, cache, failedKeys, fb, statusVars, pageVars>>

\* The pipeline function's promise fulfils with the inference callable.
AcqResolve(i) ==
  /\ i \in 1..Len(attempts)
  /\ attempts[i].acq = "inflight"
  /\ attempts' = [attempts EXCEPT ![i].acq = "fulfilled"]
  /\ calls' = <<>>
  /\ UNCHANGED <<resolvedFn, cache, failedKeys, fb, statusVars, pageVars>>

\* The pipeline function's promise rejects.
AcqReject(i) ==
  /\ i \in 1..Len(attempts)
  /\ attempts[i].acq = "inflight"
  /\ attempts' = [attempts EXCEPT ![i].acq = "rejected"]
  /\ calls' = <<>>
  /\ UNCHANGED <<resolvedFn, cache, failedKeys, fb, statusVars, pageVars>>

CatchRethrows(c, l, k) == [cache |-> MapDelete(c, l, k), prom |-> "rejected"]

CatchKeepsEntry(c, l, k) == [cache |-> c, prom |-> "null"]

\* What the .catch handler does to the cache and resolves the promise to:
\* cache.delete(key); return null;
CatchResult(c, l, k) == [cache |-> MapDelete(c, l, k), prom |-> "null"]

\* The .catch continuation of a rejected acquisition runs.
CatchHandler(i) ==
  /\ i \in 1..Len(attempts)
  /\ attempts[i].acq = "rejected"
  /\ attempts[i].prom = "pending"
  /\ LET l == attempts[i].loader
         k == attempts[i].key
         r == CatchResult(cache, l, k)
     IN /\ cache' = r.cache
        /\ attempts' = [attempts EXCEPT ![i].prom = r.prom]
        /\ failedKeys' = failedKeys \cup {<<l, k>>}
  /\ calls' = <<>>
  /\ UNCHANGED <<resolvedFn, fb, statusVars, pageVars>>

\* A fulfilled acquisition passes through .catch: the promise resolves to
\* the callable and the cache is left alone.
Fulfil(i) ==
  /\ i \in 1..Len(attempts)
  /\ attempts[i].acq = "fulfilled"
  /\ attempts[i].prom = "pending"
  /\ attempts' = [attempts EXCEPT ![i].prom = "callable"]
  /\ calls' = <<>>
  /\ UNCHANGED <<resolvedFn, cache, failedKeys, fb, statusVars, pageVars>>

LoaderInit ==
  /\ resolvedFn \in [Loaders -> BOOLEAN]
  /\ cache = [l \in Loaders |-> <<>>]
  /\ attempts = <<>>
  /\ calls = <<>>
  /\ failedKeys = {}

(***************************************************************************)
(* Fallback Loader                                                         *)
(***************************************************************************)
FALLBACK_MODELS ==
  <<"Xenova/distilbart-cnn-6-6", "onnx-community/distilbart-cnn-6-6",
    "Xenova/distilbart-cnn-12-6">>

\* what one loaderFn call can come to: a value, or a rejection
LoaderResults == {"null", "undefined", "callable", "rejected"}

NoResult == [kind |-> "none", pipeline |-> "none", model |-> "none"]
NullResult == [kind |-> "null", pipeline |-> "none", model |-> "none"]
Rejected == [kind |-> "rejected", pipeline |-> "none", model |-> "none"]
Loaded(r, m) == [kind |-> "object", pipeline |-> r, model |-> m]

\* for (const model of models) { const result = await loaderFn(...) ...
\* reaching position i: the loader call to make, or the end of the list.
LoopFromStartsAll(models, i) ==
  IF i <= Len(models)
  THEN [pc |-> "awaiting", start |-> [j \in 1..(Len(models) - i + 1) |-> i + j - 1],
        result |-> NoResult]
  ELSE [pc |-> "done", start |-> <<>>, result |-> NullResult]

LoopFromStopsEarly(models, i) ==
  IF i <= Len(models) /\ i <= 1
  THEN [pc |-> "awaiting", start |-> <<i>>, result |-> NoResult]
  ELSE [pc |-> "done", start |-> <<>>, result |-> NullResult]

LoopFrom(models, i) ==
  IF i <= Len(models)
  THEN [pc |-> "awaiting", start |-> <<i>>, result |-> NoResult]
  ELSE \* return null;
       [pc |-> "done", start |-> <<>>, result |-> NullResult]

AfterAwaitFirstModel(models, i, r) ==
  IF r = "rejected"
  THEN [pc |-> "done", start |-> <<>>, result |-> Rejected]
  ELSE IF r # "null"
  THEN [pc |-> "done", start |-> <<>>, result |-> Loaded(r, models[1])]
  ELSE LoopFrom(models, i + 1)

\* the await of the call for position i has come to r
AfterAwait(models, i, r) ==
  IF r = "rejected"
  THEN \* the await throws: loadWithFallback's promise rejects
       [pc |-> "done", start |-> <<>>, result |-> Rejected]
  ELSE IF r # "null"
  THEN \* if (result !== null) return { pipeline: result, model };
       [pc |-> "done", start |-> <<>>, result |-> Loaded(r, models[i])]
  ELSE LoopFrom(models, i + 1)

\* the loaderFn calls made for the positions in start, not yet settled
NewCalls(f, start) ==
  [j \in 1..Len(start) |->
     [task |-> f.task, model |-> f.models[start[j]], options |-> f.options,
      result |-> "pending"]]

ModelLists == UNION {[1..n -> {"m1", "m2", "m3"}] : n \in 0..MaxModels}
OptionSets == {"none", "revision-main"}

\* loadWithFallback(loaderFn, task, models, options) is called and runs to
\* its first await.
FbCall(task, models, options) ==
  /\ fb.pc \in {"idle", "done"}
  /\ LET f == [task |-> task, models |-> models, options |-> options]
         d == LoopFrom(models, 1)
     IN fb' = [pc |-> d.pc, task |-> task, models |-> models, options |-> options,
               i |-> 1, log |-> NewCalls(f, d.start), result |-> d.result]
  /\ UNCHANGED <<loaderVars, statusVars, pageVars>>

\* The promise of the awaited loaderFn call settles.
FbLoaderSettles(j, r) ==
  /\ fb.pc = "awaiting"
  /\ j \in 1..Len(fb.log)
  /\ fb.log[j].result = "pending"
  /\ fb' = [fb EXCEPT !.log[j].result = r]
  /\ UNCHANGED <<loaderVars, statusVars, pageVars>>

\* loadWithFallback resumes after its await.
FbResume ==
  /\ fb.pc = "awaiting"
  /\ fb.log[fb.i].result # "pending"
  /\ LET d == AfterAwait(fb.models, fb.i, fb.log[fb.i].result)
     IN fb' = [fb EXCEPT !.pc = d.pc, !.i = fb.i + 1, !.result = d.result,
                         !.log = fb.log \o NewCalls(fb, d.start)]
  /\ UNCHANGED <<loaderVars, statusVars, pageVars>>

FbInit ==
  fb = [pc |-> "idle", task |-> "none", models |-> <<>>, options |-> "none",
        i |-> 0, log |-> <<>>, result |-> NoResult]

\* the lists of identifiers given to loadWithFallback over a Model Loader
LoaderModelLists == UNION {[1..n -> ModelIds] : n \in 0..2}

\* The loaderFn call of loadWithFallback when loaderFn is loader l's
\* loadModel: the loader's state after the call, and the call's record with
\* the promise it returned.  options holds an onProgress that loads plan.
FbLoaderCalls(f, l, start, plan) ==
  IF start = <<>>
  THEN [st |-> LoaderState, log |-> <<>>]
  ELSE LET st == loadModel(LoaderState, resolvedFn, l,
                           LoadKey(f.task, f.models[start[1]]), plan)
       IN [st |-> st,
           log |-> <<NewCalls(f, start)[1]
                     @@ [loader |-> l, plan |-> plan,
                         promise |-> st.calls[1].returned]>>]

\* loadWithFallback(loadModel, task, models, {onProgress}) is called and
\* runs to its first await.
FbLoaderCall(l, task, models, plan) ==
  /\ fb.pc \in {"idle", "done"}
  /\ LET f == [task |-> task, models |-> models, options |-> "onProgress"]
         d == LoopFrom(models, 1)
         c == FbLoaderCalls(f, l, d.start, plan)
     IN /\ Len(c.st.attempts) <= MaxAttempts
        /\ fb' = [pc |-> d.pc, task |-> task, models |-> models,
                  options |-> "onProgress", i |-> 1, log |-> c.log, result |-> d.result]
        /\ cache' = c.st.cache
        /\ attempts' = c.st.attempts
        /\ calls' = c.st.calls
        /\ failedKeys' = c.st.failedKeys
  /\ UNCHANGED <<resolvedFn, statusVars, pageVars>>

\* The promise that loadModel returned has settled and loadWithFallback
\* resumes after its await with the promise's value, or its rejection.
FbLoaderResume ==
  /\ fb.pc = "awaiting"
  /\ LET e == fb.log[fb.i]
         v == attempts[e.promise].prom
         d == AfterAwait(fb.models, fb.i, v)
         c == FbLoaderCalls(fb, e.loader, d.start, e.plan)
     IN /\ v # "pending"
        /\ Len(c.st.attempts) <= MaxAttempts
        /\ fb' = [fb EXCEPT !.pc = d.pc, !.i = fb.i + 1, !.result = d.result,
                            !.log = [fb.log EXCEPT ![fb.i].result = v] \o c.log]
        /\ cache' = c.st.cache
        /\ attempts' = c.st.attempts
        /\ calls' = c.st.calls
        /\ failedKeys' = c.st.failedKeys
  /\ UNCHANGED <<resolvedFn, statusVars, pageVars>>
(***************************************************************************)
(* Status Reducer                                                          *)
(***************************************************************************)
STATES == {"idle", "loading", "ready", "error"}
EVENTS == {"LOAD_START", "LOAD_SUCCESS", "LOAD_FAILURE", "RETRY"}

transitions ==
  [s \in STATES |->
     CASE s = "idle"    -> ("LOAD_START" :> "loading")
       [] s = "loading" -> ("LOAD_SUCCESS" :> "ready") @@ ("LOAD_FAILURE" :> "error")
       [] s = "error"   -> ("RETRY" :> "loading")
       [] s = "ready"   -> <<>>]

\* The rows of transitions are object literals: a property they do not own
\* is looked up on Object.prototype, where these names are functions.
ObjectPrototype == {"toString", "constructor"}

\* row[event]
Property(row, event) ==
  IF event \in DOMAIN row THEN row[event]
  ELSE IF event \in ObjectPrototype THEN "function " \o event
  ELSE "undefined"

nextModelStatusFailureResets(current, event) ==
  IF current = "loading" /\ event = "LOAD_FAILURE" THEN "idle"
  ELSE IF current \in DOMAIN transitions /\ event \in DOMAIN transitions[current]
  THEN transitions[current][event]
  ELSE current

\* return transitions[current]?.[event] ?? current;
nextModelStatus(current, event) ==
  LET found == IF current \in DOMAIN transitions
               THEN Property(transitions[current], event)
               ELSE "undefined"
  IN IF found = "undefined" THEN current ELSE found

\* the events a caller may pass: the four known ones and other strings
EventInputs == EVENTS \cup {"UNKNOWN", "toString"}

\* nextModelStatus(status, event) is applied to the current status.
Dispatch(e) ==
  /\ Len(trail) < MaxEvents
  /\ status' = nextModelStatus(status, e)
  /\ trail' = Append(trail, [from |-> status, event |-> e, to |-> status'])
  /\ UNCHANGED <<loaderVars, fb, pageVars, probe>>

StatusInit == status = "idle" /\ trail = <<>>

(***************************************************************************)
(* Pure functions of the loader and of model-status.js                     *)
(***************************************************************************)
\* { ...a, ...b }: the properties of a, then those of b over them
Spread(a, b) ==
  [k \in DOMAIN a \cup DOMAIN b |-> IF k \in DOMAIN b THEN b[k] ELSE a[k]]

\* the values JavaScript treats as false
Falsy == {"undefined", "null"}

\* the third argument of loadModel: not given, or an object with any of
\* these properties
OptionKeys == {"onProgress", "dtype", "revision", "progress_callback"}

OptionValues(k) ==
  CASE k = "onProgress"        -> {"onProgress()", "null"}
    [] k = "dtype"             -> {"fp32", "undefined"}
    [] k = "revision"          -> {"main", "v2"}
    [] k = "progress_callback" -> {"callback()", "undefined"}

OptionObjects ==
  UNION {{o \in [ks -> UNION {OptionValues(k) : k \in OptionKeys}] :
            \A k \in ks : o[k] \in OptionValues(k)} : ks \in SUBSET OptionKeys}

OptionArgs ==
  {[given |-> FALSE, obj |-> [k \in {} |-> "undefined"]]}
    \cup {[given |-> TRUE, obj |-> o] : o \in OptionObjects}

PipelineOptionsDefaultsLast(arg) ==
  LET obj == arg.obj
      onProgress == IF "onProgress" \in DOMAIN obj THEN obj["onProgress"] ELSE "undefined"
      options == [k \in DOMAIN obj \ {"onProgress"} |-> obj[k]]
  IN Spread(options,
            Spread([k \in {"progress_callback"} |->
                      IF onProgress \in Falsy THEN "undefined" ELSE onProgress],
                   [k \in {"dtype"} |-> "q8"]))

\* loadModel(task, model, { onProgress, ...options } = {}) passes the
\* pipeline function
\*   { dtype: 'q8', progress_callback: onProgress || undefined, ...options }
PipelineOptions(arg) ==
  LET obj == IF arg.given THEN arg.obj ELSE [k \in {} |-> "undefined"]
      onProgress == IF "onProgress" \in DOMAIN obj THEN obj["onProgress"] ELSE "undefined"
      options == [k \in DOMAIN obj \ {"onProgress"} |-> obj[k]]
  IN Spread(Spread([k \in {"dtype"} |-> "q8"],
                   [k \in {"progress_callback"} |->
                      IF onProgress \in Falsy THEN "undefined" ELSE onProgress]),
            options)

\* loadModel is called on an empty cache with the options argument arg.
LoadWithOptions(arg) ==
  /\ probe.op = "none"
  /\ probe' = [op |-> "loadModel", in |-> arg, out |-> PipelineOptions(arg)]
  /\ UNCHANGED <<loaderVars, fb, status, trail, pageVars>>

\* task and model identifiers, some of them holding the separator
Identifiers == {"a", "b", "a::b", "b::c", "c"}

\* loadModel computes the keys of two (task, model) pairs.
KeysOf(t1, m1, t2, m2) ==
  /\ probe.op = "none"
  /\ probe' = [op |-> "key", a |-> <<t1, m1>>, b |-> <<t2, m2>>,
               ka |-> LoadKey(t1, m1), kb |-> LoadKey(t2, m2)]
  /\ UNCHANGED <<loaderVars, fb, status, trail, pageVars>>

\* the arguments of formatProgress: null, undefined, or an event object;
\* progress is the numerator of the percentage over ProgressScale
ProgressStatuses == {"initiate", "download", "progress", "done", "ready", "undefined"}
ProgressFiles == {"model.onnx", "undefined"}

ProgressEvents ==
  {[kind |-> k, status |-> "undefined", progress |-> 0, file |-> "undefined"] :
     k \in {"null", "undefined"}}
    \cup {[kind |-> "object", status |-> "progress", progress |-> n, file |-> f] :
            n \in 0..(100 * ProgressScale), f \in ProgressFiles}
    \cup {[kind |-> "object", status |-> st, progress |-> n, file |-> f] :
            st \in ProgressStatuses \ {"progress"},
            n \in {0, 100 * ProgressScale}, f \in ProgressFiles}

MathFloor(n) == n \div ProgressScale

\* Math.round(n / ProgressScale): the integer floor(x + 0.5)
MathRound(n) == (2 * n + ProgressScale) \div (2 * ProgressScale)

formatProgressDoneIsFull(progressEvent) ==
  IF progressEvent.kind \in Falsy
  THEN [percent |-> 0, isIndeterminate |-> TRUE, file |-> ""]
  ELSE IF progressEvent.status = "done"
  THEN [percent |-> 100, isIndeterminate |-> FALSE, file |-> progressEvent.file]
  ELSE IF progressEvent.status # "progress"
  THEN [percent |-> 0, isIndeterminate |-> TRUE, file |-> ""]
  ELSE [percent |-> MathRound(progressEvent.progress),
        isIndeterminate |-> FALSE,
        file |-> progressEvent.file]

formatProgress(progressEvent) ==
  IF progressEvent.kind \in Falsy \/ progressEvent.status # "progress"
  THEN \* if (!progressEvent || progressEvent.status !== 'progress')
       [percent |-> 0, isIndeterminate |-> TRUE, file |-> ""]
  ELSE [percent |-> MathRound(progressEvent.progress),
        isIndeterminate |-> FALSE,
        file |-> progressEvent.file]

\* formatProgress(e) is called.
FormatProgress(e) ==
  /\ probe.op = "none"
  /\ probe' = [op |-> "formatProgress", in |-> e, out |-> formatProgress(e)]
  /\ UNCHANGED <<loaderVars, fb, status, trail, pageVars>>

\* the lists of {label, score} that the classifier pipeline returns
RawItems == [label : {"cat", "dog"}, score : 0..MaxScore]
RawResultLists == UNION {[1..n -> RawItems] : n \in 0..MaxResults}

\* image-classify-logic.js comes in two revisions: one guards a missing
\* list and a top score of 0, the other does neither
Revisions == {"guarded", "plain"}

\* one step of the stable sort with (a, b) => b.score - a.score: item goes
\* behind every item of sorted whose score is not smaller
RECURSIVE InsertByScore(_, _)
InsertByScore(sorted, item) ==
  IF sorted = <<>> THEN <<item>>
  ELSE IF Head(sorted).score >= item.score
  THEN <<Head(sorted)>> \o InsertByScore(Tail(sorted), item)
  ELSE <<item>> \o sorted

\* [...list].sort((a, b) => b.score - a.score)
RECURSIVE SortByScore(_)
SortByScore(list) ==
  IF list = <<>> THEN <<>>
  ELSE InsertByScore(SortByScore(SubSeq(list, 1, Len(list) - 1)), list[Len(list)])

\* a number that is the quotient num / den, or NaN
Quotient(n, d) == [kind |-> "number", num |-> n, den |-> d]
NaN == [kind |-> "NaN", num |-> 0, den |-> 1]

\* barWidthPercent: topScore === 0 ? 0 : (item.score / topScore) * 100 in
\* the guarded revision, (item.score / topScore) * 100 in the plain one
BarWidth(rev, score, topScore) ==
  IF topScore = 0
  THEN IF rev = "guarded" THEN Quotient(0, 1) ELSE NaN
  ELSE Quotient(score * 100, topScore)

formatClassificationResultsUnsorted(rev, rawResults) ==
  IF Len(rawResults) = 0
  THEN [result |-> <<>>, rawResults |-> rawResults]
  ELSE LET sorted == rawResults
           topScore == sorted[1].score
       IN [result |->
             [i \in 1..Len(sorted) |->
                [rank |-> i, label |-> sorted[i].label, score |-> sorted[i].score,
                 barWidthPercent |-> BarWidth(rev, sorted[i].score, topScore),
                 colorVar |-> IF i = 1 THEN "--accent" ELSE "--info"]],
           rawResults |-> rawResults]

\* formatClassificationResults(rawResults) for a list: what it returns, and
\* the caller's list after the call (the sort works on a copy)
formatClassificationResults(rev, rawResults) ==
  IF Len(rawResults) = 0
  THEN \* if (rawResults.length === 0) return [];
       [result |-> <<>>, rawResults |-> rawResults]
  ELSE LET sorted == SortByScore(rawResults)
           topScore == sorted[1].score
       IN [result |->
             [i \in 1..Len(sorted) |->
                [rank |-> i, label |-> sorted[i].label, score |-> sorted[i].score,
                 barWidthPercent |-> BarWidth(rev, sorted[i].score, topScore),
                 colorVar |-> IF i = 1 THEN "--accent" ELSE "--info"]],
           rawResults |-> rawResults]

\* formatClassificationResults(list) is called in one of the revisions.
FormatClassification(rev, list) ==
  /\ probe.op = "none"
  /\ probe' = [op |-> "formatClassificationResults", rev |-> rev, in |-> list,
               out |-> formatClassificationResults(rev, list)]
  /\ UNCHANGED <<loaderVars, fb, status, trail, pageVars>>

\* one call of a pure function is observed
PureInit == probe = [op |-> "none"]

(***************************************************************************)
(* Page controllers                                                        *)
(***************************************************************************)
Pages == {"summarize", "sentiment", "image"}

\* the loader instance a page creates with createLoader()
PageLoader == 1

\* const TASK
PageTask(p) ==
  CASE p = "summarize" -> "summarization"
    [] p = "sentiment" -> "sentiment-analysis"
    [] p = "image"     -> "image-classification"

\* the identifiers a page loads: FALLBACK_MODELS, or its one MODEL
PageModels(p) ==
  CASE p = "summarize" -> FALLBACK_MODELS
    [] p = "sentiment" -> <<"Xenova/distilbert-base-uncased-finetuned-sst-2-english">>
    [] p = "image"     -> <<"Xenova/vit-base-patch16-224">>

\* renderStatus of summarize.js and image-classify.js shows the badge of
\* modelState; for any other value of modelState it leaves the badge as is.
renderStatus(ms, old) == IF ms \in {"loading", "ready", "error"} THEN ms ELSE old

updateButtonStateIgnoresInput(p, ms, inp, inf) ==
  \/ ms # "ready"
  \/ (p = "sentiment" /\ inf)

\* updateButtonState: the value it assigns to runBtn.disabled
updateButtonState(p, ms, inp, inf) ==
  \/ ms # "ready"
  \/ inp # "valid"
  \/ (p = "sentiment" /\ inf)

\* updateStatus(event) / transition(event) followed by the page's render
\* call; shown is the status that sentiment.js passes to renderStatus.
updateStatus(p, ms, old, event, shown) ==
  LET to == nextModelStatus(ms, event)
  IN [modelState |-> to,
      badge |-> IF p = "sentiment" THEN shown ELSE renderStatus(to, old),
      disabled |-> updateButtonState(p, to, input, inferring)]

\* the loadModel call a page makes for position i of its identifiers; the
\* page's onProgress callbacks load nothing
PageLoad(p, i) ==
  loadModel(LoaderState, resolvedFn, PageLoader, LoadKey(PageTask(p), PageModels(p)[i]), <<>>)

\* startLoadModel (startModelLoad in sentiment.js) up to its await
startLoadModel(p, retry) ==
  LET u == updateStatus(p, modelState, badge, "LOAD_START", "loading")
      st == PageLoad(p, 1)
  IN /\ modelState' = u.modelState
     /\ badge' = u.badge
     /\ disabled' = u.disabled
     /\ cache' = st.cache
     /\ attempts' = st.attempts
     /\ calls' = st.calls
     /\ failedKeys' = st.failedKeys
     \* at: the status at the moment loadModel is called; alone: whether
     \* every earlier invocation had finished
     /\ runs' = Append(runs, [pc |-> "awaiting", i |-> 1, retry |-> retry,
                               at |-> u.modelState,
                               alone |-> \A r \in 1..Len(runs) : runs[r].pc = "done",
                               promise |-> st.calls[Len(st.calls)].returned, got |-> "none"])
     /\ UNCHANGED <<resolvedFn, pagePipe, input, inferring, inferences, fb, statusVars>>

\* The page's module is evaluated: its last statement starts the load.
PageOpen(p) ==
  /\ page = "none"
  /\ page' = p
  /\ startLoadModel(p, FALSE)
  /\ UNCHANGED clicks

\* The user clicks the Retry button that the error badge holds.
RetryClick ==
  /\ page # "none"
  /\ badge = "error"
  /\ clicks < MaxClicks
  /\ clicks' = clicks + 1
  /\ startLoadModel(page, TRUE)
  /\ UNCHANGED page

LoadOutcomeKeepsLoading(p, v) ==
  LET ok == v \notin {"null", "undefined"}
      u == updateStatus(p, modelState, badge,
                        IF ok THEN "LOAD_SUCCESS" ELSE "LOAD_START",
                        IF ok THEN "ready" ELSE "loading")
  IN [modelState |-> u.modelState, badge |-> u.badge, disabled |-> u.disabled,
      pagePipe |-> IF ok \/ p = "image" THEN v ELSE pagePipe]

\* what the page stores and shows once its load has come to v:
\* if (result) { pipeline = ...; LOAD_SUCCESS } else { LOAD_FAILURE }
LoadOutcome(p, v) ==
  LET ok == v \notin {"null", "undefined"}
      u == updateStatus(p, modelState, badge,
                        IF ok THEN "LOAD_SUCCESS" ELSE "LOAD_FAILURE",
                        IF ok THEN "ready" ELSE "error")
  IN [modelState |-> u.modelState, badge |-> u.badge, disabled |-> u.disabled,
      \* image-classify.js assigns the awaited value whatever it is
      pagePipe |-> IF ok \/ p = "image" THEN v ELSE pagePipe]

\* The await of run r resumes with the value of its promise: loadWithFallback
\* moves to the next identifier or returns, and startLoadModel goes on.
LoadContinues(r) ==
  /\ r \in 1..Len(runs)
  /\ runs[r].pc = "awaiting"
  /\ attempts[runs[r].promise].prom \in {"callable", "null"}
  /\ LET v == attempts[runs[r].promise].prom
         d == IF page = "summarize"
              THEN AfterAwait(PageModels(page), runs[r].i, v)
              ELSE [pc |-> "done", start |-> <<>>,
                    result |-> IF v = "null" THEN NullResult ELSE Loaded(v, "one")]
     IN IF d.pc = "awaiting"
        THEN LET st == PageLoad(page, d.start[1])
             IN /\ cache' = st.cache
                /\ attempts' = st.attempts
                /\ calls' = st.calls
                /\ failedKeys' = st.failedKeys
                /\ runs' = [runs EXCEPT ![r].i = d.start[1],
                                         ![r].promise = st.calls[Len(st.calls)].returned]
                /\ UNCHANGED <<modelState, badge, pagePipe, disabled>>
        ELSE LET o == LoadOutcome(page, IF d.result.kind = "object"
                                        THEN d.result.pipeline ELSE "null")
             IN /\ modelState' = o.modelState
                /\ badge' = o.badge
                /\ disabled' = o.disabled
                /\ pagePipe' = o.pagePipe
                /\ runs' = [runs EXCEPT ![r].pc = "done", ![r].got = o.pagePipe]
                /\ calls' = <<>>
                /\ UNCHANGED <<cache, attempts, failedKeys>>
  /\ UNCHANGED <<resolvedFn, page, clicks, input, inferring, inferences, fb, statusVars>>

\* what the page's onProgress callback leaves in the badge: sentiment.js
\* renders the loading badge, summarize.js and image-classify.js render
\* only if (modelState === STATES.LOADING)
onProgress(p, ms, old) ==
  IF p = "sentiment" THEN "loading"
  ELSE IF ms = "loading" THEN renderStatus(ms, old)
  ELSE old

\* The pipeline function, once called, reports progress through the
\* progress_callback it was given, at any later moment.
ProgressEvent ==
  /\ page # "none"
  /\ {i \in 1..Len(attempts) : attempts[i].acq # "importing"} # {}
  /\ badge' = onProgress(page, modelState, badge)
  /\ calls' = <<>>
  /\ UNCHANGED <<page, modelState, pagePipe, runs, clicks, input, disabled,
                 inferring, inferences>>
  /\ UNCHANGED <<resolvedFn, cache, attempts, failedKeys, fb, statusVars>>

\* what an input event leaves in the page's input: text that is blank or
\* not, a dropped or chosen file that is an image or not, or the image
\* removed by "Change image"
InputEvents(p) ==
  IF p = "image" THEN {"valid", "not-an-image", "blank"} ELSE {"valid", "blank"}

\* textInput's input listener; handleFile and resetDropZone of
\* image-classify.js.  Each ends in updateButtonState, except handleFile
\* for a file that is not an image, which returns before changing anything.
InputEvent(v) ==
  /\ page # "none"
  /\ v \in InputEvents(page)
  /\ (page = "image" /\ v = "blank") => input = "valid"
  /\ IF v = "not-an-image"
     THEN UNCHANGED <<input, disabled>>
     ELSE /\ input' = v
          /\ disabled' = updateButtonState(page, modelState, v, inferring)
  /\ UNCHANGED <<page, modelState, pagePipe, badge, runs, clicks, inferring, inferences>>
  /\ UNCHANGED <<loaderVars, fb, statusVars>>

\* runInference up to its await: what it leaves in runBtn.disabled and in
\* the inferring flag
InferenceStart(p) ==
  IF p = "sentiment"
  THEN \* inferring = true; updateButtonState();
       [inferring |-> TRUE, disabled |-> updateButtonState(p, modelState, input, TRUE)]
  ELSE \* runBtn.disabled = true;
       [inferring |-> inferring, disabled |-> TRUE]

\* The user clicks the run button; a disabled button dispatches no click.
RunClick ==
  /\ page # "none"
  /\ ~disabled
  /\ Len(inferences) < MaxInferences
  /\ IF input # "valid" \/ pagePipe \notin {"callable"}
     THEN \* if (!text || !pipeline) return;
          UNCHANGED <<inferring, disabled, inferences>>
     ELSE LET s == InferenceStart(page)
          IN /\ inferring' = s.inferring
             /\ disabled' = s.disabled
             /\ inferences' = Append(inferences,
                                     [state |-> "pending",
                                      overlap |-> \E j \in 1..Len(inferences) :
                                                     inferences[j].state = "pending"])
  /\ UNCHANGED <<page, modelState, pagePipe, badge, runs, clicks, input>>
  /\ UNCHANGED <<loaderVars, fb, statusVars>>

\* The pipeline call of inference j fulfils or rejects; either way the
\* finally block runs: inferring = false (sentiment.js); updateButtonState().
InferenceSettles(j, ok) ==
  /\ j \in 1..Len(inferences)
  /\ inferences[j].state = "pending"
  /\ LET inf == IF page = "sentiment" THEN FALSE ELSE inferring
         d == updateButtonState(page, modelState, input, inf)
     IN /\ inferring' = inf
        /\ disabled' = d
        /\ inferences' = [inferences EXCEPT ![j].state = IF ok THEN "shown" ELSE "failed"]
  /\ UNCHANGED <<page, modelState, pagePipe, badge, runs, clicks, input>>
  /\ UNCHANGED <<loaderVars, fb, statusVars>>

PageInit ==
  /\ page = "none"
  /\ modelState = "idle"
  /\ pagePipe = "null"
  /\ badge = "none"
  /\ runs = <<>>
  /\ clicks = 0
  /\ input = "blank"
  /\ disabled = TRUE
  /\ inferring = FALSE
  /\ inferences = <<>>

Init == LoaderInit /\ FbInit /\ StatusInit /\ PureInit /\ PageInit

\* one loader instance, the one a page creates, and its callers
Next ==
  \/ \E k \in Keys, plan \in Plans : Load(PageLoader, k, plan)
  \/ \E i \in 1..MaxAttempts + 1, plan \in Plans : ImportDone(i, plan)
  \/ \E i \in 1..MaxAttempts + 1 : ImportFail(i)
  \/ \E i \in 1..MaxAttempts + 1 : AcqResolve(i)
  \/ \E i \in 1..MaxAttempts + 1 : AcqReject(i)
  \/ \E i \in 1..MaxAttempts + 1 : CatchHandler(i)
  \/ \E i \in 1..MaxAttempts + 1 : Fulfil(i)

Spec == Init /\ [][Next]_vars

FallbackNext ==
  \/ \E t \in Tasks, ms \in ModelLists, o \in OptionSets : FbCall(t, ms, o)
  \/ \E j \in 1..MaxModels + 1, r \in LoaderResults : FbLoaderSettles(j, r)
  \/ FbResume

SpecFallback == Init /\ [][FallbackNext]_vars

\* loadWithFallback over the loader a page created, beside other callers of
\* that loader
FbLoaderNext ==
  \/ \E t \in Tasks, ms \in LoaderModelLists : FbLoaderCall(PageLoader, t, ms, <<>>)
  \/ FbLoaderResume
  \/ \E k \in Keys : Load(PageLoader, k, <<>>)
  \/ \E i \in 1..MaxAttempts + 1 : ImportDone(i, <<>>)
  \/ \E i \in 1..MaxAttempts + 1 : ImportFail(i)
  \/ \E i \in 1..MaxAttempts + 1 : AcqResolve(i)
  \/ \E i \in 1..MaxAttempts + 1 : AcqReject(i)
  \/ \E i \in 1..MaxAttempts + 1 : CatchHandler(i)
  \/ \E i \in 1..MaxAttempts + 1 : Fulfil(i)

SpecFbLoader == Init /\ [][FbLoaderNext]_vars

\* the key that the callers of two loader instances load
SharedKey == LoadKey("sentiment-analysis", "model-a")

\* two loader instances and their callers
InstancesNext ==
  \/ \E l \in Loaders, plan \in {<<>>, <<SharedKey>>} : Load(l, SharedKey, plan)
  \/ \E i \in 1..MaxAttempts + 1, plan \in {<<>>, <<SharedKey>>} : ImportDone(i, plan)
  \/ \E i \in 1..MaxAttempts + 1 : ImportFail(i)
  \/ \E i \in 1..MaxAttempts + 1 : AcqResolve(i)
  \/ \E i \in 1..MaxAttempts + 1 : AcqReject(i)
  \/ \E i \in 1..MaxAttempts + 1 : CatchHandler(i)
  \/ \E i \in 1..MaxAttempts + 1 : Fulfil(i)

SpecInstances == Init /\ [][InstancesNext]_vars

PureNext ==
  \/ \E arg \in OptionArgs : LoadWithOptions(arg)
  \/ \E t1, t2 \in Identifiers, m1, m2 \in Identifiers : KeysOf(t1, m1, t2, m2)
  \/ \E e \in ProgressEvents : FormatProgress(e)
  \/ \E rev \in Revisions, list \in RawResultLists : FormatClassification(rev, list)

SpecPure == Init /\ [][PureNext]_vars

MaxPageAttempts == (MaxClicks + 1) * Len(FALLBACK_MODELS)

PageNext ==
  \/ \E p \in Pages : PageOpen(p)
  \/ RetryClick
  \/ \E r \in 1..MaxClicks + 1 : LoadContinues(r)
  \/ \E v \in {"valid", "not-an-image", "blank"} : InputEvent(v)
  \/ RunClick
  \/ \E j \in 1..MaxInferences, ok \in BOOLEAN : InferenceSettles(j, ok)
  \/ \E i \in 1..MaxPageAttempts : ImportDone(i, <<>>)
  \/ \E i \in 1..MaxPageAttempts : ImportFail(i)
  \/ \E i \in 1..MaxPageAttempts : AcqResolve(i)
  \/ \E i \in 1..MaxPageAttempts : AcqReject(i)
  \/ \E i \in 1..MaxPageAttempts : CatchHandler(i)
  \/ \E i \in 1..MaxPageAttempts : Fulfil(i)
  \/ ProgressEvent

SpecPage == Init /\ [][PageNext]_vars

StatusNext == \E e \in EventInputs : Dispatch(e)

SpecStatus == Init /\ [][StatusNext]_vars

(***************************************************************************)
(* Properties of the Model Loader                                          *)
(***************************************************************************)
AttemptIds == 1..Len(attempts)

Cached(i) ==
  /\ Has(cache, attempts[i].loader, attempts[i].key)
  /\ cache[attempts[i].loader][attempts[i].key] = i

\* C1: a loadModel call made while an earlier load of the same key on the
\* same loader has handed out a promise that has not settled returns that
\* very promise from the cache and starts no acquisition, so duplicate calls
\* made before the first settles cause one acquisition.
C1_DuplicateLoadsShareOnePromise ==
  \A j \in 1..Len(calls) :
    \A i \in calls[j].unsettled : calls[j].hit /\ calls[j].returned = i

\* C2: in every reachable state at most one acquisition attempt per LoadKey
\* of a loader is started and not yet settled.
C2_OneAcquisitionInFlightPerKey ==
  \A l \in Loaders, k \in Keys : Cardinality(InFlight(attempts, l, k)) <= 1

\* C3: the promise returned by loadModel never rejects; it resolves to null
\* exactly when its acquisition failed, and a failed acquisition never
\* yields anything but null.
C3_FailureResolvesToNull ==
  \A i \in AttemptIds :
    /\ attempts[i].prom # "rejected"
    /\ attempts[i].prom = "null" => attempts[i].acq = "rejected"
    /\ attempts[i].acq = "rejected" => attempts[i].prom \in {"pending", "null"}

C3_Witness ==
  \E i \in AttemptIds : attempts[i].acq = "rejected" /\ attempts[i].prom = "null"

\* C4: once a promise has resolvedFn to null the cache no longer holds it, and
\* the first loadModel call for its key after the failure misses the cache:
\* it starts a new acquisition attempt and returns a new pending promise.
C4_FailureEvictsBeforeNull ==
  /\ \A i \in AttemptIds : attempts[i].prom = "null" => ~Cached(i)
  /\ \A j \in 1..Len(calls) :
       calls[j].afterFailure =>
         /\ ~calls[j].hit
         /\ attempts[calls[j].returned].prom = "pending"
         /\ attempts[calls[j].returned].acq \in {"importing", "inflight"}

C4_Witness ==
  \E j \in 1..Len(calls) :
    /\ calls[j].afterFailure
    /\ \E i \in AttemptIds :
         /\ attempts[i].key = calls[j].key
         /\ attempts[i].prom = "null"
         /\ i < calls[j].returned

\* C5: once an acquisition has succeeded and its promise is the cache entry
\* of its key, that entry is never removed or replaced.
C5_SuccessStaysCached ==
  [][\A i \in AttemptIds :
       (attempts[i].prom = "callable" /\ Cached(i)) =>
         (/\ Has(cache', attempts[i].loader, attempts[i].key)
          /\ cache'[attempts[i].loader][attempts[i].key] = i)]_vars

\* the promise cached for key k of loader l, 0 when there is none
Entry(c, l, k) == IF Has(c, l, k) THEN c[l][k] ELSE 0

\* this step loads key k of loader l, or settles a load of it
Touches(l, k) ==
  \/ \E j \in 1..Len(calls') : calls'[j].loader = l /\ calls'[j].key = k
  \/ \E i \in AttemptIds :
       /\ attempts[i].loader = l
       /\ attempts[i].key = k
       /\ attempts'[i] # attempts[i]

\* every cache entry and every promise returned is one made for that very
\* loader and key
OwnPromisesOnly ==
  /\ \A l \in Loaders : \A k \in DOMAIN cache[l] :
       /\ cache[l][k] \in AttemptIds
       /\ attempts[cache[l][k]].loader = l
       /\ attempts[cache[l][k]].key = k
  /\ \A j \in 1..Len(calls) :
       /\ attempts[calls[j].returned].loader = calls[j].loader
       /\ attempts[calls[j].returned].key = calls[j].key

\* C16: loads of different LoadKeys are independent: a load returns a
\* promise made for its own key, and a step changes the cache entry of a
\* key, or the state of a load of it, only if it loads that key or settles
\* a load of that key.
C16_KeysIndependent ==
  /\ []OwnPromisesOnly
  /\ [][\A l \in Loaders, k \in Keys :
          Entry(cache', l, k) # Entry(cache, l, k) => Touches(l, k)]_vars

C16_Witness ==
  \E i, j \in AttemptIds :
    /\ attempts[i].loader = attempts[j].loader
    /\ attempts[i].key # attempts[j].key
    /\ attempts[i].prom = "null"
    /\ attempts[j].prom = "callable"
    /\ Cached(j)

\* a call or a settled load of loader l happens in this step
TouchesLoader(l) == \E k \in Keys : Touches(l, k)

\* C20: loader instances share no state: a step changes the cache or the
\* resolved pipeline function of an instance only if it is a load, a
\* success or a failure on that instance, and no instance caches or
\* returns a promise of another, so the same key loaded through two
\* instances is acquired twice, with two promises.
C20_InstancesShareNothing ==
  /\ [](\A j \in 1..Len(calls) :
          attempts[calls[j].returned].loader = calls[j].loader)
  /\ [](\A l \in Loaders : \A k \in DOMAIN cache[l] :
          attempts[cache[l][k]].loader = l)
  /\ [][\A l \in Loaders :
          (cache'[l] # cache[l] \/ resolvedFn'[l] # resolvedFn[l]) => TouchesLoader(l)]_vars

C20_Witness ==
  \E i, j \in AttemptIds :
    /\ i # j
    /\ attempts[i].loader # attempts[j].loader
    /\ attempts[i].key = attempts[j].key
    /\ Cached(i)
    /\ Cached(j)

(***************************************************************************)
(* Properties of the Fallback Loader                                       *)
(***************************************************************************)
\* the calls 1..n of the log were made for the first n identifiers, in list
\* order, each with the given task and options
CalledInOrder(n) ==
  /\ Len(fb.log) = n
  /\ \A j \in 1..n :
       /\ fb.log[j].task = fb.task
       /\ fb.log[j].model = fb.models[j]
       /\ fb.log[j].options = fb.options

FirstNonNullAt(k) ==
  /\ k \in 1..Len(fb.log)
  /\ fb.log[k].result \in {"undefined", "callable"}
  /\ \A j \in 1..(k - 1) : fb.log[j].result = "null"

\* C6: when the first non-null loader result occurs at list position k,
\* loadWithFallback returns {pipeline: that result, model: the k-th
\* identifier} and has called the loader exactly for positions 1..k, in
\* list order, each with the given task and options.
C6_FirstSuccessWins ==
  \A k \in 1..MaxModels + 1 :
    (fb.pc = "done" /\ FirstNonNullAt(k)) =>
      /\ fb.result = Loaded(fb.log[k].result, fb.models[k])
      /\ CalledInOrder(k)

C6_Witness ==
  /\ fb.pc = "done"
  /\ Len(fb.models) = 3
  /\ FirstNonNullAt(2)
  /\ fb.result.model = fb.models[2]

\* C7: when every loader call yields null, loadWithFallback resolves to
\* null, without rejecting, after calling the loader once per identifier
\* in list order; for the empty list it makes no call.
C7_AllNullGivesNull ==
  (fb.pc = "done" /\ \A j \in 1..Len(fb.log) : fb.log[j].result = "null") =>
    /\ fb.result = NullResult
    /\ CalledInOrder(Len(fb.models))

C7_Witness ==
  /\ fb.pc = "done"
  /\ Len(fb.models) = 3
  /\ Len(fb.log) = 3
  /\ \A j \in 1..3 : fb.log[j].result = "null"

\* C8: at no moment are two loader calls of one loadWithFallback call
\* unsettled, and the call for a position is made only once every earlier
\* call has settled with null.
C8_StrictlySequential ==
  /\ Cardinality({j \in 1..Len(fb.log) : fb.log[j].result = "pending"}) <= 1
  /\ \A j \in 2..Len(fb.log) : fb.log[j - 1].result = "null"

C8_Witness ==
  /\ Len(fb.log) >= 2
  /\ fb.log[2].result = "pending"
(***************************************************************************)
(* Properties of the Status Reducer                                        *)
(***************************************************************************)
\* the transition table of the status reducer; every other pair is a no-op
TableEntry(from, event) ==
  CASE from = "idle" /\ event = "LOAD_START" -> "loading"
    [] from = "loading" /\ event = "LOAD_SUCCESS" -> "ready"
    [] from = "loading" /\ event = "LOAD_FAILURE" -> "error"
    [] from = "error" /\ event = "RETRY" -> "loading"
    [] OTHER -> from

\* C9: for every status in {idle, loading, ready, error} and every event,
\* known or unknown, nextModelStatus returns the table's entry, which for a
\* pair the table does not list is the current status.
C9_ReducerFollowsTable ==
  \A j \in 1..Len(trail) :
    trail[j].from \in STATES => trail[j].to = TableEntry(trail[j].from, trail[j].event)
(***************************************************************************)
(* Properties of the page controllers                                      *)
(***************************************************************************)
\* C10: a load started by a click on Retry, clicked while the status is
\* error, moves the status to loading while it is awaited, and once it has
\* yielded a pipeline the status is ready.
C10_RetryRecovers ==
  \A r \in 1..Len(runs) :
    runs[r].retry =>
      /\ runs[r].pc = "awaiting" => modelState = "loading"
      /\ (runs[r].pc = "done" /\ runs[r].got = "callable") => modelState = "ready"

\* every identifier of the page's list has a load that resolved to null
EveryModelYieldedNull(p) ==
  \A m \in 1..Len(PageModels(p)) :
    \E i \in AttemptIds :
      /\ attempts[i].key = LoadKey(PageTask(p), PageModels(p)[m])
      /\ attempts[i].prom = "null"

\* C11: the load started on page open is begun with the status already
\* loading, the status stays loading while it is awaited, and when it has
\* settled the status is ready if a pipeline was obtained and error
\* otherwise (on the summarization page only after every identifier of the
\* fallback list yielded null); the status is loading only while a load is
\* awaited.
C11_OpenLoadSettlesStatus ==
  /\ \A r \in 1..Len(runs) :
       ~runs[r].retry =>
         /\ runs[r].at = "loading"
         /\ runs[r].pc = "awaiting" => modelState = "loading"
         /\ (runs[r].pc = "done" /\ clicks = 0) =>
              /\ modelState = IF runs[r].got = "callable" THEN "ready" ELSE "error"
              /\ modelState = "error" => EveryModelYieldedNull(page)
  /\ modelState = "loading" => \E r \in 1..Len(runs) : runs[r].pc = "awaiting"

C11_Witness ==
  /\ page = "summarize"
  /\ clicks = 0
  /\ Len(runs) = 1
  /\ runs[1].pc = "done"
  /\ modelState = "error"
  /\ Len(attempts) = Len(FALLBACK_MODELS)

\* C12: in every reachable state of a page the run button is enabled only
\* if the model status is ready and the input is valid.
C12_EnabledOnlyWhenReadyAndValid ==
  ~disabled => (modelState = "ready" /\ input = "valid")

C12_Witness ==
  /\ ~disabled
  /\ \E j \in 1..Len(inferences) : inferences[j].state # "pending"
  /\ \E r \in 1..Len(runs) : runs[r].pc = "done"

\* C13: while an inference of a page is in progress the run button is
\* disabled, whatever input events occur, and no inference is started while
\* another is in progress.
C13_DisabledDuringInference ==
  /\ (\E j \in 1..Len(inferences) : inferences[j].state = "pending") => disabled
  /\ \A j \in 1..Len(inferences) : ~inferences[j].overlap

(***************************************************************************)
(* Properties of the Fallback Loader over a Model Loader                   *)
(***************************************************************************)
\* C14: loadWithFallback given a loader's loadModel never rejects: no
\* awaited load rejects, and its result is {pipeline, model} with the
\* callable, or null.
C14_FallbackOverLoaderNeverRejects ==
  /\ \A j \in 1..Len(fb.log) : fb.log[j].result # "rejected"
  /\ fb.pc = "done" =>
       \/ fb.result = NullResult
       \/ /\ fb.result.kind = "object"
          /\ fb.result.pipeline = "callable"

C14_Witness ==
  /\ fb.pc = "done"
  /\ Len(fb.log) = 2
  /\ fb.log[1].result = "null"
  /\ fb.result.kind = "object"
  /\ \E i \in AttemptIds : attempts[i].acq = "rejected"

(***************************************************************************)
(* Properties of the pure functions                                        *)
(***************************************************************************)
\* C15: the options given to the pipeline function are the default
\* {dtype: 'q8'}, under progress_callback set to the caller's onProgress
\* (undefined when there is none), under every other option of the caller:
\* the caller's options are forwarded as given, dtype is 'q8' unless the
\* caller names it, and onProgress itself is not forwarded.
C15_OptionsMerge ==
  probe.op = "loadModel" =>
    LET o == probe.in.obj
        out == probe.out
        rest == DOMAIN o \ {"onProgress"}
    IN /\ DOMAIN out = {"dtype", "progress_callback"} \cup rest
       /\ \A k \in rest : out[k] = o[k]
       /\ "dtype" \notin rest => out["dtype"] = "q8"
       /\ "progress_callback" \notin rest =>
            out["progress_callback"] =
              IF "onProgress" \in DOMAIN o /\ o["onProgress"] = "onProgress()"
              THEN "onProgress()" ELSE "undefined"

C15_Witness ==
  /\ probe.op = "loadModel"
  /\ DOMAIN probe.in.obj = {"onProgress", "dtype", "revision"}
  /\ probe.in.obj["onProgress"] = "onProgress()"
  /\ probe.out["dtype"] = "fp32"
  /\ probe.out["progress_callback"] = "onProgress()"

\* C17: two (task, model) pairs that differ in task or in model never
\* have the same LoadKey.
C17_KeyUniquePerPair ==
  (probe.op = "key" /\ probe.a # probe.b) => probe.ka # probe.kb

\* C18: for an argument that is null or undefined, or whose status is not
\* "progress", formatProgress returns exactly
\* {percent: 0, isIndeterminate: true, file: ""}.
C18_NoProgressIsIndeterminate ==
  (/\ probe.op = "formatProgress"
   /\ (probe.in.kind # "object" \/ probe.in.status # "progress")) =>
    probe.out = [percent |-> 0, isIndeterminate |-> TRUE, file |-> ""]

C18_Witness ==
  /\ probe.op = "formatProgress"
  /\ probe.in.kind = "object"
  /\ probe.in.status = "done"
  /\ probe.in.progress = 100 * ProgressScale
  /\ probe.out.isIndeterminate

\* C19: for an event with status "progress", percentage p in [0, 100] and
\* file f, formatProgress returns isIndeterminate = false, file = f, and as
\* percent the integer q in 0..100 with q - 1/2 <= p < q + 1/2.
C19_ProgressPercentRounded ==
  (/\ probe.op = "formatProgress"
   /\ probe.in.kind = "object"
   /\ probe.in.status = "progress") =>
    LET n == probe.in.progress
        q == probe.out.percent
    IN /\ probe.out.isIndeterminate = FALSE
       /\ probe.out.file = probe.in.file
       /\ q \in 0..100
       /\ 2 * ProgressScale * q <= 2 * n + ProgressScale
       /\ 2 * n + ProgressScale < 2 * ProgressScale * (q + 1)

C19_Witness ==
  /\ probe.op = "formatProgress"
  /\ probe.in.status = "progress"
  /\ 2 * probe.in.progress = 91 * ProgressScale
  /\ probe.out.percent = 46

\* how often item x occurs in list
Occurrences(list, x) == Cardinality({i \in 1..Len(list) : list[i] = x})

\* C21: for a list of {label, score} results formatClassificationResults
\* returns a list of the same length holding the same results ordered by
\* score descending, with rank equal to position, colorVar '--accent' at
\* rank 1 and '--info' elsewhere; the empty list gives the empty list, and
\* the list passed in is left in its order.
C21_ResultsSortedAndRanked ==
  probe.op = "formatClassificationResults" =>
    LET out == probe.out.result
        item(i) == [label |-> out[i].label, score |-> out[i].score]
    IN /\ Len(out) = Len(probe.in)
       /\ \A x \in RawItems :
            Occurrences([i \in 1..Len(out) |-> item(i)], x) = Occurrences(probe.in, x)
       /\ \A i, j \in 1..Len(out) : i < j => out[i].score >= out[j].score
       /\ \A i \in 1..Len(out) :
            /\ out[i].rank = i
            /\ out[i].colorVar = IF i = 1 THEN "--accent" ELSE "--info"
       /\ probe.out.rawResults = probe.in

C21_Witness ==
  /\ probe.op = "formatClassificationResults"
  /\ Len(probe.in) = 3
  /\ probe.in[1].score < probe.in[2].score
  /\ probe.in[2].score < probe.in[3].score
  /\ probe.out.result[1].label = probe.in[3].label
  /\ probe.out.result[3].rank = 3

\* C22: for a non-empty list the item of rank 1 has barWidthPercent = 100
\* and every other item has (its score / top score) * 100, never more than
\* 100.
C22_BarWidthRelativeToTop ==
  (probe.op = "formatClassificationResults" /\ Len(probe.in) > 0) =>
    LET out == probe.out.result
        top == out[1].score
    IN /\ out[1].barWidthPercent.kind = "number"
       /\ out[1].barWidthPercent.num = 100 * out[1].barWidthPercent.den
       /\ \A i \in 2..Len(out) :
            LET w == out[i].barWidthPercent
            IN /\ w.kind = "number"
               /\ w.num * top = out[i].score * 100 * w.den
               /\ w.num <= 100 * w.den

\* C23: under every sequence of events applied with nextModelStatus from
\* idle the status is one of idle, loading, ready, error; ready is kept
\* under every event; idle is never entered again; and error is entered
\* only from loading or error.
C23_StatusWellFormedForever ==
  /\ status \in STATES
  /\ \A j \in 1..Len(trail) :
       /\ trail[j].from = "ready" => trail[j].to = "ready"
       /\ trail[j].to = "idle" => trail[j].from = "idle"
       /\ trail[j].to = "error" => trail[j].from \in {"loading", "error"}

\* the four transitions of the table, as pairs <<from, to>>
TableTransitions ==
  {<<"idle", "loading">>, <<"loading", "ready">>, <<"loading", "error">>,
   <<"error", "loading">>}

\* C24: the modelState of a page is always one of the four statuses, and
\* every change of it is one of the four transitions of the table.
C24_ModelStateFollowsTable ==
  /\ [](modelState \in STATES)
  /\ [][modelState' # modelState =>
          <<modelState, modelState'>> \in TableTransitions]_vars

C24_Witness ==
  /\ page # "none"
  /\ modelState = "error"
  /\ clicks >= 1
  /\ \E r \in 1..Len(runs) : runs[r].retry /\ runs[r].pc = "done"

(***************************************************************************)
(* Further properties of the Model Loader                                  *)
(***************************************************************************)
\* in this step the failure handler of a load of key k on loader l runs
FailureHandled(l, k) ==
  \E i \in AttemptIds :
    /\ attempts[i].loader = l
    /\ attempts[i].key = k
    /\ attempts[i].prom = "pending"
    /\ attempts'[i].prom = "null"

\* in this step a load call for key k on loader l misses the cache and
\* gets promise p
Missed(l, k, p) ==
  \E j \in 1..Len(calls') :
    /\ calls'[j].loader = l
    /\ calls'[j].key = k
    /\ ~calls'[j].hit
    /\ calls'[j].returned = p

\* C25: the cache changes in two ways only: a load call that finds no
\* entry for its key stores its promise under the key before it returns,
\* and the failure handler of an acquisition deletes the entry of its
\* key; a load that hits the cache and an acquisition that succeeds leave
\* the cache as it is.
C25_CacheChangesByInsertOrEvict ==
  [][/\ \A l \in Loaders, k \in Keys :
          /\ Entry(cache', l, k) # Entry(cache, l, k) =>
               IF Has(cache', l, k)
               THEN Missed(l, k, cache'[l][k])
               ELSE FailureHandled(l, k)
          /\ (\E p \in 1..Len(attempts') : Missed(l, k, p)) => Has(cache', l, k)
          /\ FailureHandled(l, k) => ~Has(cache', l, k)
     /\ (/\ calls' # <<>>
         /\ \A j \in 1..Len(calls') : calls'[j].hit) => cache' = cache
     /\ (\E i \in AttemptIds :
           attempts[i].prom = "pending" /\ attempts'[i].prom = "callable") =>
          cache' = cache]_vars

C25_Witness ==
  /\ \E i \in AttemptIds : attempts[i].prom = "null"
  /\ \E i \in AttemptIds : attempts[i].prom = "callable" /\ Cached(i)
  /\ \E j \in 1..Len(calls) : calls[j].hit

\* C26: while the acquisition of a load has not settled, the promise of
\* the load is pending and is the cache entry of its key, so that every
\* later load of the key gets that promise and starts no acquisition.
C26_HungAcquisitionKeepsEntry ==
  \A i \in AttemptIds :
    attempts[i].acq \in {"importing", "inflight"} =>
      /\ attempts[i].prom = "pending"
      /\ Cached(i)

\* C27: when the failure handler of a load deletes the cache entry of its
\* key, that entry is the load's own promise.
C27_FailureEvictsOwnEntryOnly ==
  [][\A i \in AttemptIds :
       (/\ attempts[i].prom = "pending"
        /\ attempts'[i].prom = "null"
        /\ Has(cache, attempts[i].loader, attempts[i].key)) =>
         cache[attempts[i].loader][attempts[i].key] = i]_vars

(***************************************************************************)
(* Further properties of the page controllers                              *)
(***************************************************************************)
\* the LoadKey of position m of the summarization page's fallback list
FallbackKey(m) == LoadKey(PageTask("summarize"), FALLBACK_MODELS[m])

\* C28: when the loadWithFallback call of the summarization page has
\* completed, the loader's cache holds the identifier that succeeded and
\* none tried before it, or none at all when every identifier failed; and
\* every call made after the one before it completed with every identifier
\* failed, a retry too, acquires anew from the first identifier: each
\* earlier call made one acquisition per identifier, and the latest one per
\* identifier it has reached.
C28_FallbackLeavesOnlySuccessCached ==
  (/\ page = "summarize"
   /\ runs # <<>>
   /\ \A r \in 1..Len(runs) : runs[r].alone
   /\ \A r \in 1..(Len(runs) - 1) : runs[r].got # "callable") =>
    LET last == runs[Len(runs)]
    IN /\ Len(attempts) = Len(FALLBACK_MODELS) * (Len(runs) - 1) + last.i
       /\ \A m \in 1..last.i : attempts[Len(attempts) - last.i + m].key = FallbackKey(m)
       /\ last.pc = "done" =>
            IF last.got = "callable"
            THEN /\ Has(cache, PageLoader, FallbackKey(last.i))
                 /\ \A m \in 1..(last.i - 1) : ~Has(cache, PageLoader, FallbackKey(m))
            ELSE \A m \in 1..Len(FALLBACK_MODELS) : ~Has(cache, PageLoader, FallbackKey(m))

C28_Witness ==
  /\ page = "summarize"
  /\ Len(runs) = 2
  /\ runs[2].pc = "done"
  /\ runs[2].got = "callable"
  /\ runs[2].alone
  /\ runs[2].i = 2
  /\ Len(attempts) = 5

\* C29: the displayed status goes from ready or error back to loading
\* only when a new load is started; a progress event never does it.
C29_LateProgressKeepsDisplay ==
  [][(badge \in {"ready", "error"} /\ badge' = "loading") =>
       Len(runs') > Len(runs)]_vars

\* C30: on an open page the badge shown is the one of the current
\* modelState, and whenever 'Model ready' is shown modelState is ready and
\* a pipeline is stored.
C30_BadgeShowsModelState ==
  page # "none" =>
    /\ badge = modelState
    /\ badge = "ready" => pagePipe = "callable"
====
